---------------------------- MODULE Spec2Model ----------------------------
(***************************************************************************)
(* Model of backend/import_product_authorizations.py: the organization     *)
(* index builder (get_federal_organizations), the name matcher             *)
(* (match_agency_to_org) and the reconciliation pass, report and write     *)
(* stage of main.  The grouping of agencies in                             *)
(* backend/load_agency_ai_tools.py and the loop of load_use_cases in       *)
(* backend/load_use_case_inventory.py follow at the end, each with its own *)
(* specification.                                                          *)
(*                                                                         *)
(* Representation.  A Python str is a sequence of one-character strings,   *)
(* so that lower(), strip(), startswith() and slicing are computed         *)
(* character by character.  An Optional value is a set with at most one    *)
(* element: None is {} and a present value x is {x}.  A dict is a function *)
(* whose DOMAIN is its key set.  A CSV row is the record of what           *)
(* row.get(column, '') yields for the five columns main reads: a string,   *)
(* or None where the line has fewer fields than the header (DictReader     *)
(* fills the missing ones with its restval, None).                         *)
(***************************************************************************)
EXTENDS Integers, Sequences, FiniteSets, TLC

VARIABLES
    pc,                     \* position of main
    config,                 \* [argv, file, dburl]: what lines 90-103 test
    federal_organizations,  \* the table read by get_federal_organizations
    committed,              \* product_authorizations as committed in the store
    tx,                     \* product_authorizations as seen by main's transaction
    orgs,                   \* the alias index (line 109)
    rows,                   \* the rows read from the CSV (lines 114-118)
    i,                      \* number of rows the loop of line 136 has consumed
    seen,                   \* line 124
    authorizations,         \* line 125
    stats,                  \* lines 126-132
    unmatched_agencies,     \* line 134
    org_id,                 \* line 157, the matcher's last result
    call,                   \* a stand-alone call of match_agency_to_org
    history,                \* [before, previous]: product_authorizations as
                            \* committed when this run of main began, and how
                            \* the run before it ended
    agency_load,            \* the locals of load_agency_ai_tools.main and the
                            \* two tables it fills
    use_case_load           \* the locals of load_use_cases and the two tables
                            \* it fills

vars ==
    << pc, config, federal_organizations, committed, tx, orgs, rows, i, seen,
       authorizations, stats, unmatched_agencies, org_id, call, history,
       agency_load, use_case_load >>

(***************************************************************************)
(* Bounds of the model.                                                    *)
(***************************************************************************)
\* longest CSV file, in rows
MaxRows ==
    3

\* largest federal_organizations table, in records
MaxOrgs ==
    2

\* largest index handed to a stand-alone matcher call, in keys
MaxKeys ==
    2

(***************************************************************************)
(* String literals of the program and of the inputs.                       *)
(***************************************************************************)
\* "Legacy JAB Authorization"
LEGACY_JAB ==
    << "L", "e", "g", "a", "c", "y", " ", "J", "A", "B", " ", "A", "u", "t", "h", "o",
       "r", "i", "z", "a", "t", "i", "o", "n" >>

\* "Federal Risk and Authorization Management Program"
FEDRAMP_PMO ==
    << "F", "e", "d", "e", "r", "a", "l", " ", "R", "i", "s", "k", " ", "a", "n", "d",
       " ", "A", "u", "t", "h", "o", "r", "i", "z", "a", "t", "i", "o", "n", " ", "M",
       "a", "n", "a", "g", "e", "m", "e", "n", "t", " ", "P", "r", "o", "g", "r", "a",
       "m" >>

\* "Department of "
PREFIX_DEPT_OF ==
    << "D", "e", "p", "a", "r", "t", "m", "e", "n", "t", " ", "o", "f", " " >>

\* "Department of the "
PREFIX_DEPT_OF_THE ==
    << "D", "e", "p", "a", "r", "t", "m", "e", "n", "t", " ", "o", "f", " ", "t", "h",
       "e", " " >>

\* "Department of Example"
s_DeptOfExample ==
    << "D", "e", "p", "a", "r", "t", "m", "e", "n", "t", " ", "o", "f", " ", "E", "x",
       "a", "m", "p", "l", "e" >>

\* "Department of Example "
s_DeptOfExample_sp ==
    << "D", "e", "p", "a", "r", "t", "m", "e", "n", "t", " ", "o", "f", " ", "E", "x",
       "a", "m", "p", "l", "e", " " >>

\* "department of example"
s_deptofexample ==
    << "d", "e", "p", "a", "r", "t", "m", "e", "n", "t", " ", "o", "f", " ", "e", "x",
       "a", "m", "p", "l", "e" >>

\* "Example"
s_Example ==
    << "E", "x", "a", "m", "p", "l", "e" >>

\* "example"
s_example ==
    << "e", "x", "a", "m", "p", "l", "e" >>

\* " Example "
s_Example_sp ==
    << " ", "E", "x", "a", "m", "p", "l", "e", " " >>

\* "Department of the X"
s_DeptOfTheX ==
    << "D", "e", "p", "a", "r", "t", "m", "e", "n", "t", " ", "o", "f", " ", "t", "h",
       "e", " ", "X" >>

\* "department of the x"
s_deptofthex ==
    << "d", "e", "p", "a", "r", "t", "m", "e", "n", "t", " ", "o", "f", " ", "t", "h",
       "e", " ", "x" >>

\* "department of X"
s_deptofX ==
    << "d", "e", "p", "a", "r", "t", "m", "e", "n", "t", " ", "o", "f", " ", "X" >>

\* "the x"
s_thex ==
    << "t", "h", "e", " ", "x" >>

\* "x"
s_x ==
    << "x" >>

\* "Unknown Dept"
s_UnknownDept ==
    << "U", "n", "k", "n", "o", "w", "n", " ", "D", "e", "p", "t" >>

\* "unknown dept"
s_unknowndept ==
    << "u", "n", "k", "n", "o", "w", "n", " ", "d", "e", "p", "t" >>

\* "Sub X"
s_SubX ==
    << "S", "u", "b", " ", "X" >>

\* "sub x"
s_subx ==
    << "s", "u", "b", " ", "x" >>

\* "legacy jab authorization"
s_legacyjab ==
    << "l", "e", "g", "a", "c", "y", " ", "j", "a", "b", " ", "a", "u", "t", "h", "o",
       "r", "i", "z", "a", "t", "i", "o", "n" >>

\* "federal risk and authorization management program"
s_fedramppmo ==
    << "f", "e", "d", "e", "r", "a", "l", " ", "r", "i", "s", "k", " ", "a", "n", "d",
       " ", "a", "u", "t", "h", "o", "r", "i", "z", "a", "t", "i", "o", "n", " ", "m",
       "a", "n", "a", "g", "e", "m", "e", "n", "t", " ", "p", "r", "o", "g", "r", "a",
       "m" >>

\* "DOE2"
s_DOE2 ==
    << "D", "O", "E", "2" >>

\* "doe2 "
s_doe2_sp ==
    << "d", "o", "e", "2", " " >>

\* "doe2"
s_doe2 ==
    << "d", "o", "e", "2" >>

\* "F-001"
s_F001 ==
    << "F", "-", "0", "0", "1" >>

\* " F-001"
s_F001_sp ==
    << " ", "F", "-", "0", "0", "1" >>

\* "F-002"
s_F002 ==
    << "F", "-", "0", "0", "2" >>

\* " "
s_sp ==
    << " " >>

\* "2020-01-01"
s_date1 ==
    << "2", "0", "2", "0", "-", "0", "1", "-", "0", "1" >>

\* "2021-06-30"
s_date2 ==
    << "2", "0", "2", "1", "-", "0", "6", "-", "3", "0" >>

EMPTY ==
    << >>

(***************************************************************************)
(* Python built-ins used by the program.                                   *)
(***************************************************************************)
UPPER ==
    << "A", "B", "C", "D", "E", "F", "G", "H", "I", "J", "K", "L", "M",
       "N", "O", "P", "Q", "R", "S", "T", "U", "V", "W", "X", "Y", "Z" >>

LOWER ==
    << "a", "b", "c", "d", "e", "f", "g", "h", "i", "j", "k", "l", "m",
       "n", "o", "p", "q", "r", "s", "t", "u", "v", "w", "x", "y", "z" >>

\* the characters str.strip() removes
WHITESPACE ==
    { " ", "\t", "\n", "\r" }

\* str.lower() on one character
LowerChar(c) ==
    IF \E k \in 1..Len(UPPER) : UPPER[k] = c
    THEN LOWER[CHOOSE k \in 1..Len(UPPER) : UPPER[k] = c]
    ELSE c

\* str.lower()
Lower(s) ==
    [k \in 1..Len(s) |-> LowerChar(s[k])]

RECURSIVE LStrip(_)
LStrip(s) ==
    IF s = << >> THEN s
    ELSE IF Head(s) \in WHITESPACE THEN LStrip(Tail(s))
    ELSE s

RECURSIVE RStrip(_)
RStrip(s) ==
    IF s = << >> THEN s
    ELSE IF s[Len(s)] \in WHITESPACE THEN RStrip(SubSeq(s, 1, Len(s) - 1))
    ELSE s

\* str.strip()
Strip(s) ==
    RStrip(LStrip(s))

\* str.startswith(prefix)
StartsWith(s, prefix) ==
    /\ Len(s) >= Len(prefix)
    /\ SubSeq(s, 1, Len(prefix)) = prefix

\* s[n:]
SliceFrom(s, n) ==
    SubSeq(s, n + 1, Len(s))

None ==
    {}

Some(x) ==
    {x}

\* the value of a present Optional
The(opt) ==
    CHOOSE x \in opt : TRUE

\* "x if x else None" for a str
OrNone(s) ==
    IF s # << >> THEN Some(s) ELSE None

(***************************************************************************)
(* normalize_name, lines 26-30.                                            *)
(***************************************************************************)
normalize_name(name) ==
    IF name = << >> THEN << >> ELSE Strip(Lower(name))

(***************************************************************************)
(* match_agency_to_org, lines 56-87.                                       *)
(***************************************************************************)
\* IsSpecialValue with the second test (lines 64-65) left out
IsSpecialValue_OnlyLegacyJab(parent_agency) ==
    parent_agency = LEGACY_JAB

\* lines 62-65: the special values
IsSpecialValue(parent_agency) ==
    \/ parent_agency = LEGACY_JAB
    \/ parent_agency = FEDRAMP_PMO

\* PREFIXES without "Department of "
PREFIXES_OnlyDeptOfThe ==
    << PREFIX_DEPT_OF_THE >>

\* PREFIXES with the longer prefix tried first
PREFIXES_LongestFirst ==
    << PREFIX_DEPT_OF_THE, PREFIX_DEPT_OF >>

\* line 81: the prefixes, in the order the loop tries them
PREFIXES ==
    << PREFIX_DEPT_OF, PREFIX_DEPT_OF_THE >>

\* line 83: short = parent_agency[len(prefix):]
StripPrefix(parent_agency, prefix) ==
    SliceFrom(parent_agency, Len(prefix))

\* lines 81-85: the loop over the prefixes, from the k-th on
RECURSIVE TryPrefixes(_, _, _)
TryPrefixes(parent_agency, index, k) ==
    IF k > Len(PREFIXES) THEN None
    ELSE IF /\ StartsWith(parent_agency, PREFIXES[k])
            /\ normalize_name(StripPrefix(parent_agency, PREFIXES[k])) \in DOMAIN index
         THEN Some(index[normalize_name(StripPrefix(parent_agency, PREFIXES[k]))])
         ELSE TryPrefixes(parent_agency, index, k + 1)

\* SubLookup looking up sub_agency as given, not normalized
SubLookup_Raw(sub_agency, index) ==
    IF sub_agency # << >> /\ sub_agency \in DOMAIN index
    THEN Some(index[sub_agency])
    ELSE None

\* lines 67-71: the sub_agency lookup
SubLookup(sub_agency, index) ==
    IF sub_agency # << >> /\ normalize_name(sub_agency) \in DOMAIN index
    THEN Some(index[normalize_name(sub_agency)])
    ELSE None

\* ParentLookup that never finds the parent
ParentLookup_Never(parent_agency, index) ==
    None

\* lines 73-77: the parent_agency lookup
ParentLookup(parent_agency, index) ==
    IF parent_agency # << >> /\ normalize_name(parent_agency) \in DOMAIN index
    THEN Some(index[normalize_name(parent_agency)])
    ELSE None

\* lines 79-85: the prefix lookups
PrefixLookup(parent_agency, index) ==
    IF parent_agency # << >> THEN TryPrefixes(parent_agency, index, 1) ELSE None

\* match_agency_to_org trying parent_agency before sub_agency
match_agency_to_org_ParentFirst(parent_agency, sub_agency, index) ==
    IF IsSpecialValue(parent_agency) THEN None
    ELSE IF ParentLookup(parent_agency, index) # None
         THEN ParentLookup(parent_agency, index)
    ELSE IF SubLookup(sub_agency, index) # None
         THEN SubLookup(sub_agency, index)
    ELSE PrefixLookup(parent_agency, index)

match_agency_to_org(parent_agency, sub_agency, index) ==
    IF IsSpecialValue(parent_agency) THEN None
    ELSE IF SubLookup(sub_agency, index) # None
         THEN SubLookup(sub_agency, index)
    ELSE IF ParentLookup(parent_agency, index) # None
         THEN ParentLookup(parent_agency, index)
    ELSE PrefixLookup(parent_agency, index)

(***************************************************************************)
(* get_federal_organizations, lines 32-54.  A record of the table carries  *)
(* the columns the function reads: id, name, short_name, abbreviation and  *)
(* is_active (level and parent_id are fetched and never used).  The table  *)
(* is a sequence: the order in which fetchall() returns its records.       *)
(***************************************************************************)
\* "if short_name:" on an Optional str
StrTruthy(opt) ==
    opt # None /\ The(opt) # << >>

\* orgs[key] = org_id
Put(index, key, value) ==
    [k \in (DOMAIN index) \cup {key} |-> IF k = key THEN value ELSE index[k]]

\* RegisterAliases without lines 50-51: the abbreviation is not registered
RegisterAliases_NoAbbreviation(index, rec) ==
    LET byName == Put(index, normalize_name(rec.name), rec.id)
    IN  IF StrTruthy(rec.short_name)
        THEN Put(byName, normalize_name(The(rec.short_name)), rec.id)
        ELSE byName

\* lines 43-51: the aliases of one record
RegisterAliases(index, rec) ==
    LET byName  == Put(index, normalize_name(rec.name), rec.id)
        byShort == IF StrTruthy(rec.short_name)
                   THEN Put(byName, normalize_name(The(rec.short_name)), rec.id)
                   ELSE byName
    IN  IF StrTruthy(rec.abbreviation)
        THEN Put(byShort, normalize_name(The(rec.abbreviation)), rec.id)
        ELSE byShort

\* IsActive without the WHERE clause
IsActive_Any(rec) ==
    TRUE

\* lines 35-39: WHERE is_active = true
IsActive(rec) ==
    rec.is_active

\* lines 41-51: the loop over the fetched records
RECURSIVE IndexRecords(_, _)
IndexRecords(index, recs) ==
    IF recs = << >> THEN index
    ELSE IndexRecords(RegisterAliases(index, Head(recs)), Tail(recs))

get_federal_organizations(table) ==
    IndexRecords(<< >>, SelectSeq(table, IsActive))

(***************************************************************************)
(* The reconciliation loop of main, lines 124-173.                         *)
(***************************************************************************)
\* lines 126-132
InitialStats ==
    [total |-> 0, matched |-> 0, unmatched |-> 0, skipped |-> 0, duplicates |-> 0]

\* line 137
CountTotal(st) ==
    [st EXCEPT !.total = @ + 1]

\* line 146
CountSkipped(st) ==
    [st EXCEPT !.skipped = @ + 1]

\* CountDuplicate leaving the counter alone
CountDuplicate_Forgotten(st) ==
    st

\* line 152
CountDuplicate(st) ==
    [st EXCEPT !.duplicates = @ + 1]

\* line 160
CountMatched(st) ==
    [st EXCEPT !.matched = @ + 1]

\* line 162
CountUnmatched(st) ==
    [st EXCEPT !.unmatched = @ + 1]

\* IsSkipRow with "and" for "or"
IsSkipRow_BothEmpty(fedramp_id, parent_agency) ==
    fedramp_id = << >> /\ parent_agency = << >>

\* line 145: if not fedramp_id or not parent_agency
IsSkipRow(fedramp_id, parent_agency) ==
    fedramp_id = << >> \/ parent_agency = << >>

\* dedup_key without the sub_agency
dedup_key_NoSubAgency(fedramp_id, parent_agency, sub_agency) ==
    << fedramp_id, parent_agency, << >> >>

\* line 150
dedup_key(fedramp_id, parent_agency, sub_agency) ==
    << fedramp_id, parent_agency, sub_agency >>

\* AlreadySeen never finding the key
AlreadySeen_Never(key, seenKeys) ==
    FALSE

\* line 151
AlreadySeen(key, seenKeys) ==
    key \in seenKeys

\* line 159: "if org_id:" on an Optional int
IdTruthy(opt) ==
    opt # None /\ The(opt) # 0

\* line 163
UnmatchedLabel(parent_agency, sub_agency) ==
    IF sub_agency # << >> THEN sub_agency ELSE parent_agency

\* Increment that stores 1 instead of adding 1
Increment_SetToOne(table, key) ==
    [k \in (DOMAIN table) \cup {key} |-> IF k = key THEN 1 ELSE table[k]]

\* line 164: unmatched_agencies[key] += 1 on a defaultdict(int)
Increment(table, key) ==
    [k \in (DOMAIN table) \cup {key} |->
        IF k = key
        THEN (IF key \in DOMAIN table THEN table[key] ELSE 0) + 1
        ELSE table[k]]

\* lines 166-173
AuthorizationTuple(fedramp_id, org, parent_agency, sub_agency, ato_issuance, ato_expiration) ==
    << fedramp_id, org, parent_agency, OrNone(sub_agency),
       OrNone(ato_issuance), OrNone(ato_expiration) >>

(***************************************************************************)
(* The write stage of main, lines 189-211.  A row of product_authorizations*)
(* is the 6-tuple inserted; the table is the set of its rows.              *)
(***************************************************************************)
\* the conflict target of line 201
ConflictKey(t) ==
    << t[1], t[3], IF t[4] = None THEN << >> ELSE The(t[4]) >>

\* lines 198-204: INSERT ... ON CONFLICT ... DO UPDATE, one tuple
Upsert(table, t) ==
    { r \in table : ConflictKey(r) # ConflictKey(t) } \cup
    { IF \E r \in table : ConflictKey(r) = ConflictKey(t)
      THEN LET old == CHOOSE r \in table : ConflictKey(r) = ConflictKey(t)
           IN  << old[1], t[2], old[3], old[4], t[5], t[6] >>
      ELSE t }

\* line 207: execute_values over the whole list
RECURSIVE InsertAll(_, _)
InsertAll(table, tuples) ==
    IF tuples = << >> THEN table
    ELSE InsertAll(Upsert(table, Head(tuples)), Tail(tuples))

(***************************************************************************)
(* Inputs: the organization records, the CSV rows and the stored rows the  *)
(* model draws from.                                                       *)
(***************************************************************************)
OrgRecord(id, name, short_name, abbreviation, is_active) ==
    [id |-> id, name |-> name, short_name |-> short_name,
     abbreviation |-> abbreviation, is_active |-> is_active]

OrgPool ==
    { OrgRecord(1, s_DeptOfExample, None, Some(s_DOE2), TRUE),
      OrgRecord(0, s_SubX, Some(s_Example), Some(EMPTY), TRUE),
      OrgRecord(2, s_UnknownDept, Some(s_Example_sp), Some(s_doe2_sp), TRUE),
      OrgRecord(3, s_Example, None, None, FALSE) }

\* the tables: up to MaxOrgs records with pairwise distinct ids, in any order
OrgTables ==
    { t \in UNION { [1..n -> OrgPool] : n \in 0..MaxOrgs } :
        \A a, b \in 1..Len(t) : a # b => t[a].id # t[b].id }

\* a line of the file with all five fields
CsvRow(fedramp_id, parent_agency, sub_agency, ato_issuance, ato_expiration) ==
    [fedramp_id |-> Some(fedramp_id), parent_agency |-> Some(parent_agency),
     sub_agency |-> Some(sub_agency), ato_issuance |-> Some(ato_issuance),
     ato_expiration |-> Some(ato_expiration)]

\* a line that ends after its first field
ShortCsvRow(fedramp_id) ==
    [fedramp_id |-> Some(fedramp_id), parent_agency |-> None, sub_agency |-> None,
     ato_issuance |-> None, ato_expiration |-> None]

\* lines 139-143: some row.get(...) yields None
HasNoneField(row) ==
    \E c \in DOMAIN row : row[c] = None

RowPool ==
    { CsvRow(s_F001, s_DeptOfExample, EMPTY, s_date1, EMPTY),
      CsvRow(s_F001_sp, s_DeptOfExample_sp, s_sp, s_date2, s_date2),
      CsvRow(s_F002, s_UnknownDept, s_SubX, EMPTY, EMPTY),
      CsvRow(s_sp, s_UnknownDept, s_SubX, s_date1, EMPTY),
      CsvRow(s_F002, EMPTY, EMPTY, EMPTY, s_date1),
      ShortCsvRow(s_F002) }

CsvFiles ==
    UNION { [1..n -> RowPool] : n \in 0..MaxRows }

\* a row left in product_authorizations by an earlier run
STALE_ROW ==
    << s_F002, Some(3), s_DeptOfExample, None, Some(s_date1), None >>

\* product_authorizations before the run
StoredTables ==
    { {STALE_ROW} }

IdleCall ==
    [parent |-> EMPTY, sub |-> EMPTY, index |-> << >>, result |-> None, done |-> FALSE]

\* load_agency_ai_tools.main not started
IdleAgencyLoad ==
    [df |-> << >>, k |-> 0, agencies |-> << >>, order |-> << >>, used_slugs |-> {},
     base_slug |-> EMPTY, slug |-> EMPTY, counter |-> 0,
     agency_ai_profiles |-> << >>, agency_ai_tools |-> {}]

\* load_use_cases not started
IdleUseCaseLoad ==
    [reader |-> << >>, n |-> 0, ai_use_cases |-> << >>, ai_use_case_details |-> {},
     count |-> 0, skipped |-> 0, committed |-> FALSE]

(***************************************************************************)
(* main, lines 89-214.                                                     *)
(***************************************************************************)
Init ==
    /\ pc = "start"
    /\ config \in [argv : BOOLEAN, file : BOOLEAN, dburl : BOOLEAN]
    /\ federal_organizations \in OrgTables
    /\ committed \in StoredTables
    /\ tx = committed
    /\ orgs = << >>
    /\ rows = << >>
    /\ i = 0
    /\ seen = {}
    /\ authorizations = << >>
    /\ stats = InitialStats
    /\ unmatched_agencies = << >>
    /\ org_id = None
    /\ call = IdleCall
    /\ history = [before |-> committed, previous |-> "none"]
    /\ agency_load = IdleAgencyLoad
    /\ use_case_load = IdleUseCaseLoad

\* ConfigError without the test of lines 100-103
ConfigError_DatabaseUrlUntested(cfg) ==
    ~cfg.argv \/ ~cfg.file

\* lines 90, 95 and 101: no argument, no such file, or no DATABASE_URL
ConfigError(cfg) ==
    ~cfg.argv \/ ~cfg.file \/ ~cfg.dburl

\* lines 90-103: the three configuration tests, each ending in sys.exit(1)
CheckConfig ==
    /\ pc = "start"
    /\ pc' = IF ConfigError(config) THEN "exit1" ELSE "connect"
    /\ UNCHANGED << agency_load, use_case_load, history, config, federal_organizations, committed, tx, orgs, rows, i,
                    seen, authorizations, stats, unmatched_agencies, org_id, call >>

\* lines 105-110
FetchOrgs ==
    /\ pc = "connect"
    /\ orgs' = get_federal_organizations(federal_organizations)
    /\ pc' = "read"
    /\ UNCHANGED << agency_load, use_case_load, history, config, federal_organizations, committed, tx, rows, i, seen,
                    authorizations, stats, unmatched_agencies, org_id, call >>

\* lines 112-134: read every row, then set up the loop's state
ReadCsv ==
    /\ pc = "read"
    /\ \E file \in CsvFiles : rows' = file
    /\ seen' = {}
    /\ authorizations' = << >>
    /\ stats' = InitialStats
    /\ unmatched_agencies' = << >>
    /\ i' = 0
    /\ pc' = "loop"
    /\ UNCHANGED << agency_load, use_case_load, history, config, federal_organizations, committed, tx, orgs, org_id, call >>

\* lines 136-173: one iteration of the loop
ProcessRow ==
    /\ pc = "loop"
    /\ i < Len(rows)
    /\ ~HasNoneField(rows[i + 1])
    /\ LET row            == rows[i + 1]
           fedramp_id     == Strip(The(row.fedramp_id))
           parent_agency  == Strip(The(row.parent_agency))
           sub_agency     == Strip(The(row.sub_agency))
           ato_issuance   == Strip(The(row.ato_issuance))
           ato_expiration == Strip(The(row.ato_expiration))
           key            == dedup_key(fedramp_id, parent_agency, sub_agency)
           org            == match_agency_to_org(parent_agency, sub_agency, orgs)
           counted        == CountTotal(stats)
       IN  IF IsSkipRow(fedramp_id, parent_agency)
           THEN /\ stats' = CountSkipped(counted)
                /\ UNCHANGED << seen, authorizations, unmatched_agencies, org_id >>
           ELSE IF AlreadySeen(key, seen)
           THEN /\ stats' = CountDuplicate(counted)
                /\ UNCHANGED << seen, authorizations, unmatched_agencies, org_id >>
           ELSE /\ seen' = seen \cup {key}
                /\ org_id' = org
                /\ IF IdTruthy(org)
                   THEN /\ stats' = CountMatched(counted)
                        /\ UNCHANGED unmatched_agencies
                   ELSE /\ stats' = CountUnmatched(counted)
                        /\ unmatched_agencies' =
                               Increment(unmatched_agencies,
                                         UnmatchedLabel(parent_agency, sub_agency))
                /\ authorizations' =
                       Append(authorizations,
                              AuthorizationTuple(fedramp_id, org, parent_agency,
                                                 sub_agency, ato_issuance, ato_expiration))
    /\ i' = i + 1
    /\ pc' = "loop"
    /\ UNCHANGED << agency_load, use_case_load, history, config, federal_organizations, committed, tx, orgs, rows, call >>

\* lines 136-143 on a row with a None field: total is counted (line 137),
\* then None.strip() raises AttributeError, which nothing catches: the process
\* ends inside the iteration and its transaction is dropped.
ProcessShortRow ==
    /\ pc = "loop"
    /\ i < Len(rows)
    /\ HasNoneField(rows[i + 1])
    /\ stats' = CountTotal(stats)
    /\ pc' = "attribute_error"
    /\ UNCHANGED << agency_load, use_case_load, history, config, federal_organizations, committed, tx, orgs, rows, i, seen,
                    authorizations, unmatched_agencies, org_id, call >>

\* line 175
unique_count ==
    stats.matched + stats.unmatched

\* lines 175-187: the statistics report.  Lines 181-182 divide by
\* unique_count; with unique_count = 0 that raises ZeroDivisionError, which
\* nothing catches: the process ends there and its transaction is dropped.
Report ==
    /\ pc = "loop"
    /\ i = Len(rows)
    /\ pc' = IF unique_count = 0 THEN "zero_division" ELSE "clear"
    /\ UNCHANGED << agency_load, use_case_load, history, config, federal_organizations, committed, tx, orgs, rows, i,
                    seen, authorizations, stats, unmatched_agencies, org_id, call >>

\* TruncateTable that clears nothing
TruncateTable_Nothing(table) ==
    table

\* line 192: TRUNCATE product_authorizations RESTART IDENTITY
TruncateTable(table) ==
    {}

\* lines 189-192: TRUNCATE product_authorizations, inside the transaction
Truncate ==
    /\ pc = "clear"
    /\ tx' = TruncateTable(tx)
    /\ pc' = "insert"
    /\ UNCHANGED << agency_load, use_case_load, history, config, federal_organizations, committed, orgs, rows, i, seen,
                    authorizations, stats, unmatched_agencies, org_id, call >>

\* lines 194-207
Insert ==
    /\ pc = "insert"
    /\ tx' = InsertAll(tx, authorizations)
    /\ pc' = "commit"
    /\ UNCHANGED << agency_load, use_case_load, history, config, federal_organizations, committed, orgs, rows, i, seen,
                    authorizations, stats, unmatched_agencies, org_id, call >>

\* lines 209-214
Commit ==
    /\ pc = "commit"
    /\ committed' = tx
    /\ pc' = "done"
    /\ UNCHANGED << agency_load, use_case_load, history, config, federal_organizations, tx, orgs, rows, i, seen,
                    authorizations, stats, unmatched_agencies, org_id, call >>

Next ==
    \/ CheckConfig
    \/ FetchOrgs
    \/ ReadCsv
    \/ ProcessRow
    \/ ProcessShortRow
    \/ Report
    \/ Truncate
    \/ Insert
    \/ Commit

Spec ==
    Init /\ [][Next]_vars

(***************************************************************************)
(* match_agency_to_org called on its own: every parent_agency, sub_agency  *)
(* and index of the pools below, the index being any dict of up to MaxKeys *)
(* keys.                                                                   *)
(***************************************************************************)
MatchParents ==
    { EMPTY, LEGACY_JAB, FEDRAMP_PMO, s_legacyjab, s_DeptOfExample,
      s_deptofexample, s_Example_sp, s_UnknownDept, s_DeptOfTheX, s_deptofX }

MatchSubs ==
    { EMPTY, s_sp, s_SubX, s_Example, s_Example_sp }

KeyPool ==
    { EMPTY, s_example, s_deptofexample, s_subx, s_legacyjab, s_fedramppmo,
      s_unknowndept, s_Example, s_deptofthex, s_thex, s_x }

IdPool ==
    { 0, 1, 2 }

MatchIndexes ==
    UNION { [ks -> IdPool] : ks \in { S \in SUBSET KeyPool : Cardinality(S) <= MaxKeys } }

InitMatch ==
    /\ pc = "idle"
    /\ config = [argv |-> TRUE, file |-> TRUE, dburl |-> TRUE]
    /\ federal_organizations = << >>
    /\ committed = {}
    /\ tx = {}
    /\ orgs = << >>
    /\ rows = << >>
    /\ i = 0
    /\ seen = {}
    /\ authorizations = << >>
    /\ stats = InitialStats
    /\ unmatched_agencies = << >>
    /\ org_id = None
    /\ call \in [parent : MatchParents, sub : MatchSubs, index : MatchIndexes,
                 result : {None}, done : {FALSE}]
    /\ history = [before |-> {}, previous |-> "none"]
    /\ agency_load = IdleAgencyLoad
    /\ use_case_load = IdleUseCaseLoad

CallMatch ==
    /\ ~call.done
    /\ call' = [call EXCEPT
                   !.result = match_agency_to_org(call.parent, call.sub, call.index),
                   !.done = TRUE]
    /\ UNCHANGED << agency_load, use_case_load, history, pc, config, federal_organizations, committed, tx, orgs, rows, i,
                    seen, authorizations, stats, unmatched_agencies, org_id >>

NextMatch ==
    CallMatch

SpecMatch ==
    InitMatch /\ [][NextMatch]_vars

(***************************************************************************)
(* main run again and again on one unmodified CSV file, with a write stage *)
(* that may fail.  The variable rows holds, from the start, what reading   *)
(* the file yields.  The connection of line 106 is in psycopg2's default   *)
(* mode (no autocommit): TRUNCATE and INSERT take effect in the store only *)
(* at conn.commit() (line 209), and a process that ends before it leaves   *)
(* the store as it was.                                                    *)
(***************************************************************************)
\* longest CSV file of the repeated runs, in rows
MaxRerunRows ==
    2

\* the rows of these files: those of RowPool and a second row of sub-agency
\* "Sub X", under another FedRAMP ID
RerunRowPool ==
    RowPool \cup { CsvRow(s_F001, s_UnknownDept, s_SubX, EMPTY, EMPTY) }

RerunCsvFiles ==
    UNION { [1..n -> RerunRowPool] : n \in 0..MaxRerunRows }

\* the tables of the repeated runs: none or one organization
RerunOrgTables ==
    { t \in OrgTables : Len(t) <= 1 }

\* a row an earlier run stored for the key of (F-001, Department of Example, "")
PRIOR_ROW ==
    << s_F001, Some(2), s_DeptOfExample, None, Some(s_date2), Some(s_date2) >>

RerunStoredTables ==
    StoredTables \cup { {PRIOR_ROW} }

InitRerun ==
    /\ pc = "start"
    /\ config = [argv |-> TRUE, file |-> TRUE, dburl |-> TRUE]
    /\ federal_organizations \in RerunOrgTables
    /\ committed \in RerunStoredTables
    /\ tx = committed
    /\ orgs = << >>
    /\ rows \in RerunCsvFiles
    /\ i = 0
    /\ seen = {}
    /\ authorizations = << >>
    /\ stats = InitialStats
    /\ unmatched_agencies = << >>
    /\ org_id = None
    /\ call = IdleCall
    /\ history = [before |-> committed, previous |-> "none"]
    /\ agency_load = IdleAgencyLoad
    /\ use_case_load = IdleUseCaseLoad

\* lines 112-134 on the unmodified file
ReadSameCsv ==
    /\ pc = "read"
    /\ rows' = rows
    /\ seen' = {}
    /\ authorizations' = << >>
    /\ stats' = InitialStats
    /\ unmatched_agencies' = << >>
    /\ i' = 0
    /\ pc' = "loop"
    /\ UNCHANGED << agency_load, use_case_load, history, config, federal_organizations, committed, tx, orgs, org_id, call >>

\* the store after a session that ended without conn.commit(): the session's
\* statements were never committed
AfterFailedWrite_Autocommit(store, session) ==
    session

AfterFailedWrite(store, session) ==
    store

\* lines 194-209: execute_values (line 207) or conn.commit() (line 209)
\* raises, after the TRUNCATE and before the commit has taken effect; nothing
\* catches it and the process ends
WriteFails ==
    /\ pc \in { "insert", "commit" }
    /\ committed' = AfterFailedWrite(committed, tx)
    /\ tx' = committed'
    /\ pc' = "write_error"
    /\ UNCHANGED << agency_load, use_case_load, history, config, federal_organizations, orgs, rows, i, seen,
                    authorizations, stats, unmatched_agencies, org_id, call >>

\* main is started again, on the same file and the same organizations
RunAgain ==
    /\ pc \in { "done", "write_error" }
    /\ history' = [before |-> committed, previous |-> pc]
    /\ pc' = "start"
    /\ tx' = committed
    /\ orgs' = << >>
    /\ i' = 0
    /\ seen' = {}
    /\ authorizations' = << >>
    /\ stats' = InitialStats
    /\ unmatched_agencies' = << >>
    /\ org_id' = None
    /\ UNCHANGED << agency_load, use_case_load, config, federal_organizations, committed,
                    rows, call >>

NextRerun ==
    \/ CheckConfig
    \/ FetchOrgs
    \/ ReadSameCsv
    \/ ProcessRow
    \/ ProcessShortRow
    \/ Report
    \/ Truncate
    \/ Insert
    \/ Commit
    \/ WriteFails
    \/ RunAgain

SpecRerun ==
    InitRerun /\ [][NextRerun]_vars

(***************************************************************************)
(* Properties of the reconciliation loop (specification Spec).             *)
(***************************************************************************)
\* a step of the loop of line 136 that processes row i + 1 to its end
RowStep ==
    pc = "loop" /\ i < Len(rows) /\ i' = i + 1

Outcomes ==
    { "matched", "unmatched", "duplicates", "skipped" }

StatsSum ==
    stats.matched + stats.unmatched + stats.duplicates + stats.skipped

\* the natural key of a CSV row: its trimmed (FedRAMP ID, Parent Agency, Sub Agency)
NaturalKey(row) ==
    << Strip(The(row.fedramp_id)), Strip(The(row.parent_agency)),
       Strip(The(row.sub_agency)) >>

\* a required field of the row is empty after trimming
MissingRequired(row) ==
    Strip(The(row.fedramp_id)) = << >> \/ Strip(The(row.parent_agency)) = << >>

\* the natural key of an output tuple
TupleKey(t) ==
    << t[1], t[3], IF t[4] = None THEN << >> ELSE The(t[4]) >>

\* C1: after every processed row matched + unmatched + duplicates + skipped
\* equals total and total equals the number of rows processed so far; a
\* processed row adds one to total and one to exactly one of the four other
\* counters.  (A run that died inside an iteration has processed i rows and
\* reports no statistics.)
C1_StatsBalance ==
    /\ [](pc # "attribute_error" => (StatsSum = stats.total /\ stats.total = i))
    /\ [][RowStep =>
            /\ stats'.total = stats.total + 1
            /\ \E f \in Outcomes :
                  /\ stats'[f] = stats[f] + 1
                  /\ \A g \in Outcomes \ {f} : stats'[g] = stats[g]]_vars

C1_Witness ==
    /\ pc = "loop"
    /\ i = Len(rows)
    /\ stats.total = 3
    /\ stats.skipped = 1
    /\ stats.duplicates = 1
    /\ stats.matched + stats.unmatched = 1

\* C6: a row whose natural key an earlier row already had, both required
\* fields being non-empty, adds one to duplicates and changes neither the
\* output, the seen set, matched, unmatched nor the frequency table; the
\* output holds one tuple for the key, built from its first occurrence.
C6_DuplicatesDropped ==
    /\ [][(/\ RowStep
           /\ ~MissingRequired(rows[i + 1])
           /\ \E j \in 1..i : NaturalKey(rows[j]) = NaturalKey(rows[i + 1]))
          =>
          (/\ stats'.duplicates = stats.duplicates + 1
           /\ stats'.matched = stats.matched
           /\ stats'.unmatched = stats.unmatched
           /\ UNCHANGED << authorizations, seen, unmatched_agencies >>)]_vars
    /\ [](\A j \in 1..i :
            ~MissingRequired(rows[j]) =>
              LET first == CHOOSE f \in 1..j :
                              /\ NaturalKey(rows[f]) = NaturalKey(rows[j])
                              /\ \A e \in 1..(f - 1) :
                                    NaturalKey(rows[e]) # NaturalKey(rows[j])
                  kept  == { n \in 1..Len(authorizations) :
                               TupleKey(authorizations[n]) = NaturalKey(rows[j]) }
              IN  /\ Cardinality(kept) = 1
                  /\ \A n \in kept :
                        /\ authorizations[n][5] = OrNone(Strip(The(rows[first].ato_issuance)))
                        /\ authorizations[n][6] = OrNone(Strip(The(rows[first].ato_expiration))))

\* a later occurrence of a key has just been dropped; it carried other dates
C6_Witness ==
    /\ pc = "loop"
    /\ i >= 2
    /\ stats.duplicates = 1
    /\ Len(authorizations) = 1
    /\ ~MissingRequired(rows[i])
    /\ \E j \in 1..(i - 1) :
          /\ NaturalKey(rows[j]) = NaturalKey(rows[i])
          /\ rows[j].ato_issuance # rows[i].ato_issuance

\* C7: a row is counted skipped exactly when its FedRAMP ID or its Parent
\* Agency is empty after trimming; such a row changes neither the output, the
\* seen set, duplicates, matched, unmatched nor the frequency table.
C7_SkippedRows ==
    [][RowStep =>
         /\ (stats'.skipped = stats.skipped + 1) <=> MissingRequired(rows[i + 1])
         /\ stats'.skipped \in { stats.skipped, stats.skipped + 1 }
         /\ MissingRequired(rows[i + 1]) =>
               /\ stats'.duplicates = stats.duplicates
               /\ stats'.matched = stats.matched
               /\ stats'.unmatched = stats.unmatched
               /\ UNCHANGED << authorizations, seen, unmatched_agencies >>]_vars

\* a row with a whitespace-only FedRAMP ID and one with an empty Parent
\* Agency have been skipped, after a row that was retained
C7_Witness ==
    /\ pc = "loop"
    /\ i = 3
    /\ stats.skipped = 2
    /\ Len(authorizations) = 1
    /\ \E j \in 1..i : rows[j].fedramp_id = Some(s_sp) /\ rows[j].parent_agency # Some(EMPTY)
    /\ \E j \in 1..i : rows[j].parent_agency = Some(EMPTY) /\ rows[j].fedramp_id # Some(EMPTY)

\* C8: rows with a missing required field never abort the run: whatever the
\* file (empty, or every row skipped), once the loop is over the run is in the
\* clear/insert/commit stage or has terminated normally.
C8_RowErrorsNeverAbort ==
    (pc \notin { "idle", "start", "exit1", "connect", "read", "loop" })
        => pc \in { "clear", "insert", "commit", "done" }

\* C9: a retained row is counted matched iff match_agency_to_org returned an
\* organization identifier for it (0 included), and unmatched iff it returned
\* None.
C9_MatchedIffResolved ==
    [][(RowStep /\ Len(authorizations') = Len(authorizations) + 1) =>
         LET row      == rows[i + 1]
             returned == match_agency_to_org(Strip(The(row.parent_agency)),
                                             Strip(The(row.sub_agency)), orgs)
         IN  /\ (stats'.matched = stats.matched + 1) <=> (returned # None)
             /\ (stats'.unmatched = stats.unmatched + 1) <=> (returned = None)]_vars

\* the tuples of the output with, and without, an organization
WithOrganization ==
    { n \in 1..Len(authorizations) : authorizations[n][2] # None }

WithoutOrganization ==
    { n \in 1..Len(authorizations) : authorizations[n][2] = None }

\* C10: at the end of the pass the output tuples without an organization are
\* as many as unmatched, those with one as many as matched.
C10_UnmatchedKeptWithNull ==
    (pc = "loop" /\ i = Len(rows)) =>
        /\ Cardinality(WithoutOrganization) = stats.unmatched
        /\ Cardinality(WithOrganization) = stats.matched

(***************************************************************************)
(* Properties of match_agency_to_org (specification SpecMatch).            *)
(***************************************************************************)
\* C2: the result is None whenever parent_agency is one of the two special
\* values, whatever sub_agency and the index are.
C2_SpecialValuesUnresolved ==
    (call.done /\ call.parent \in { LEGACY_JAB, FEDRAMP_PMO }) => call.result = None

\* a special parent whose normalized form and whose sub_agency are both aliases
C2_Witness ==
    /\ call.done
    /\ call.parent = FEDRAMP_PMO
    /\ call.sub # EMPTY
    /\ normalize_name(call.sub) \in DOMAIN call.index
    /\ normalize_name(call.parent) \in DOMAIN call.index
    /\ call.result = None

\* C3: for a parent_agency that is no special value and a non-empty
\* sub_agency whose normalized form is a key, the result is the identifier
\* under the normalized sub_agency, whatever the parent is registered to.
C3_SubAgencyFirst ==
    (/\ call.done
     /\ call.parent \notin { LEGACY_JAB, FEDRAMP_PMO }
     /\ call.sub # EMPTY
     /\ normalize_name(call.sub) \in DOMAIN call.index)
    => call.result = Some(call.index[normalize_name(call.sub)])

\* sub_agency and parent_agency are aliases of two different organizations
C3_Witness ==
    /\ call.done
    /\ call.parent = s_DeptOfExample
    /\ call.sub = s_SubX
    /\ s_subx \in DOMAIN call.index
    /\ s_deptofexample \in DOMAIN call.index
    /\ call.index[s_subx] # call.index[s_deptofexample]
    /\ call.result = Some(call.index[s_subx])

\* C4: ("Department of Example", "") resolves iff "example" or "department of
\* example" is a key; when both are, to the identifier under the latter.
C4_DepartmentOfExample ==
    (call.done /\ call.parent = s_DeptOfExample /\ call.sub = EMPTY) =>
        /\ (call.result # None) <=>
              (s_example \in DOMAIN call.index \/ s_deptofexample \in DOMAIN call.index)
        /\ (s_example \in DOMAIN call.index /\ s_deptofexample \in DOMAIN call.index)
              => call.result = Some(call.index[s_deptofexample])

\* only "example" is a key, and the call resolved to it
C4_Witness ==
    /\ call.done
    /\ call.parent = s_DeptOfExample
    /\ call.sub = EMPTY
    /\ s_example \in DOMAIN call.index
    /\ s_deptofexample \notin DOMAIN call.index
    /\ call.result = Some(call.index[s_example])

\* the keys a call may resolve through
CandidateKeys(parent_agency, sub_agency) ==
    { normalize_name(sub_agency), normalize_name(parent_agency) }
    \cup { normalize_name(SliceFrom(parent_agency, Len(p))) :
             p \in { q \in { PREFIX_DEPT_OF, PREFIX_DEPT_OF_THE } :
                       StartsWith(parent_agency, q) } }

\* C5: a result is the index value under a candidate key; with no candidate
\* key in the index the result is None.
C5_ExactAfterNormalization ==
    call.done =>
        LET hits == CandidateKeys(call.parent, call.sub) \cap DOMAIN call.index
        IN  /\ call.result # None => \E k \in hits : call.result = Some(call.index[k])
            /\ hits = {} => call.result = None

\* the index holds a key that differs from the sub_agency only in case, and no
\* candidate key: the call stays unresolved
C5_Witness ==
    /\ call.done
    /\ call.sub = s_Example_sp
    /\ call.parent = s_UnknownDept
    /\ DOMAIN call.index = { s_Example, s_deptofexample }
    /\ call.result = None

(***************************************************************************)
(* Further properties of the reconciliation loop (specification Spec).     *)
(***************************************************************************)
\* the natural keys of the rows among the first n that are retained (no
\* required field missing, key not met before), in input order
RECURSIVE RetainedKeys(_)
RetainedKeys(n) ==
    IF n = 0 THEN << >>
    ELSE LET earlier == RetainedKeys(n - 1)
             key     == NaturalKey(rows[n])
         IN  IF \/ MissingRequired(rows[n])
                \/ \E m \in 1..Len(earlier) : earlier[m] = key
             THEN earlier
             ELSE Append(earlier, key)

\* the natural keys of the output, in output order
OutputKeys ==
    [n \in 1..Len(authorizations) |-> TupleKey(authorizations[n])]

\* C11: after any prefix of the input the output holds one tuple per retained
\* row, in input order of first occurrence; its length is matched + unmatched
\* and the size of the seen set; no two tuples share a natural key; the
\* natural keys of the output are the seen set.
C11_OutputIsRetainedRows ==
    /\ OutputKeys = RetainedKeys(i)
    /\ Len(authorizations) = stats.matched + stats.unmatched
    /\ Len(authorizations) = Cardinality(seen)
    /\ \A a, b \in 1..Len(authorizations) : a # b => OutputKeys[a] # OutputKeys[b]
    /\ { OutputKeys[n] : n \in 1..Len(authorizations) } = seen

\* a retained row, its duplicate, then a retained row with a sub_agency
C11_Witness ==
    /\ pc = "loop"
    /\ i = 3
    /\ stats.duplicates = 1
    /\ Len(authorizations) = 2
    /\ NaturalKey(rows[1]) = NaturalKey(rows[2])
    /\ authorizations[2][4] # None

\* the organizations and the rows of the end-to-end scenario
ScenarioOrganizations ==
    << OrgRecord(1, s_DeptOfExample, None, Some(s_DOE2), TRUE) >>

ScenarioRows ==
    << CsvRow(s_F001, s_DeptOfExample, EMPTY, s_date1, EMPTY),
       CsvRow(s_F001, s_DeptOfExample, EMPTY, s_date1, EMPTY),
       CsvRow(s_F002, s_UnknownDept, s_SubX, EMPTY, EMPTY) >>

ScenarioDone ==
    /\ federal_organizations = ScenarioOrganizations
    /\ rows = ScenarioRows
    /\ pc = "loop"
    /\ i = Len(rows)

\* C13: with the single organization {1, "Department of Example", "DOE2"} and
\* the rows (F-001, Department of Example, ""), the same again, (F-002,
\* Unknown Dept, Sub X), the pass ends with total 3, duplicates 1, skipped 0,
\* matched 1, unmatched 1, an output of two tuples, the first with
\* organization 1 and the second (third row) with none, and the frequency
\* table {"Sub X": 1}.
C13_EndToEnd ==
    ScenarioDone =>
        /\ stats = [total |-> 3, matched |-> 1, unmatched |-> 1, skipped |-> 0,
                    duplicates |-> 1]
        /\ Len(authorizations) = 2
        /\ authorizations[1][1] = s_F001
        /\ authorizations[1][2] = Some(1)
        /\ authorizations[2][1] = s_F002
        /\ authorizations[2][2] = None
        /\ DOMAIN unmatched_agencies = { s_SubX }
        /\ unmatched_agencies[s_SubX] = 1

C13_Witness ==
    ScenarioDone /\ stats.total = 3

(***************************************************************************)
(* Properties of get_federal_organizations (specification Spec: the index  *)
(* main builds at line 109 from the table).                                *)
(***************************************************************************)
\* get_federal_organizations has just returned (line 109)
IndexBuilt ==
    pc = "read"

\* an optional column that holds a non-empty string
NonEmpty(opt) ==
    opt # None /\ The(opt) # EMPTY

\* the normalized aliases of a record
Aliases(rec) ==
    { normalize_name(rec.name) }
    \cup (IF NonEmpty(rec.short_name)
          THEN { normalize_name(The(rec.short_name)) } ELSE {})
    \cup (IF NonEmpty(rec.abbreviation)
          THEN { normalize_name(The(rec.abbreviation)) } ELSE {})

\* the positions of the active records of the table
ActivePositions ==
    { k \in 1..Len(federal_organizations) : federal_organizations[k].is_active }

\* the active records after position k that have the alias
LaterWithAlias(k, alias) ==
    { m \in ActivePositions : m > k /\ alias \in Aliases(federal_organizations[m]) }

\* C14 as stated: for every active record with a non-empty abbreviation the
\* index maps the normalized abbreviation to that record's own identifier.
C14_AbbreviationToOwnId ==
    IndexBuilt =>
        \A k \in ActivePositions :
            NonEmpty(federal_organizations[k].abbreviation) =>
                LET alias == normalize_name(The(federal_organizations[k].abbreviation))
                IN  /\ alias \in DOMAIN orgs
                    /\ orgs[alias] = federal_organizations[k].id

\* C14 as amended: the normalized abbreviation is a key; it maps to the
\* record's own identifier when no later record has the same normalized
\* alias, and otherwise to the identifier of the last record that has it.
C14_AbbreviationToLastId ==
    IndexBuilt =>
        \A k \in ActivePositions :
            NonEmpty(federal_organizations[k].abbreviation) =>
                LET alias == normalize_name(The(federal_organizations[k].abbreviation))
                    later == LaterWithAlias(k, alias)
                IN  /\ alias \in DOMAIN orgs
                    /\ later = {} => orgs[alias] = federal_organizations[k].id
                    /\ later # {} =>
                          orgs[alias] =
                              federal_organizations[
                                  CHOOSE m \in later : \A n \in later : n <= m].id

\* "DOE2" of organization 1 and "doe2 " of the later organization 2 collide
C14_Witness ==
    /\ IndexBuilt
    /\ Len(federal_organizations) = 2
    /\ federal_organizations[1].abbreviation = Some(s_DOE2)
    /\ federal_organizations[2].abbreviation = Some(s_doe2_sp)
    /\ orgs[s_doe2] = federal_organizations[2].id

\* C15: the keys of the index are exactly the normalized name, short_name
\* and abbreviation (each of the two when present, that is, a non-empty
\* string) of the active records; a key maps to the identifier of the last
\* active record, in fetch order, that has it as an alias; inactive records
\* contribute no key.
C15_IndexIsLastWriteWins ==
    IndexBuilt =>
        /\ DOMAIN orgs = UNION { Aliases(federal_organizations[k]) : k \in ActivePositions }
        /\ \A key \in DOMAIN orgs :
              LET having == { k \in ActivePositions :
                                key \in Aliases(federal_organizations[k]) }
              IN  /\ having # {}
                  /\ orgs[key] =
                        federal_organizations[
                            CHOOSE m \in having : \A n \in having : n <= m].id

\* an inactive record next to an active one: its name is no key
C15_Witness ==
    /\ IndexBuilt
    /\ Len(federal_organizations) = 2
    /\ ~federal_organizations[1].is_active
    /\ federal_organizations[2].is_active
    /\ normalize_name(federal_organizations[1].name) \notin DOMAIN orgs
    /\ orgs # << >>

(***************************************************************************)
(* Properties of the configuration tests and of the write stage.           *)
(***************************************************************************)
\* C16: with the CSV path argument missing, the CSV file absent or
\* DATABASE_URL unset, the run goes nowhere but to sys.exit(1), and
\* product_authorizations stays as it was before the run, in the store and in
\* the session (no TRUNCATE, INSERT or commit).
C16_ConfigErrorsBeforeMutation ==
    (~config.argv \/ ~config.file \/ ~config.dburl) =>
        /\ pc \in { "start", "exit1" }
        /\ committed = history.before
        /\ tx = history.before

\* the run has exited on an unset DATABASE_URL alone
C16_Witness ==
    /\ pc = "exit1"
    /\ config.argv /\ config.file /\ ~config.dburl
    /\ committed = history.before

\* the tuples of the resolved output, as a set of rows
OutputRows ==
    { authorizations[n] : n \in 1..Len(authorizations) }

RowKeys(table) ==
    { << r[1], r[3], IF r[4] = None THEN EMPTY ELSE The(r[4]) >> : r \in table }

\* C17: after a run that completes product_authorizations holds exactly the
\* rows of the resolved output (keys, organizations, dates), one per natural
\* key, and nothing of what it held before; when the run before also
\* completed, or the table already held exactly these natural keys (with
\* other dates), the number of rows is what it was.
C17_WriteIsFullReplace ==
    pc = "done" =>
        /\ committed = OutputRows
        /\ Cardinality(committed) = Len(authorizations)
        /\ Cardinality(RowKeys(committed)) = Cardinality(committed)
        /\ \A r \in history.before : r \in committed => r \in OutputRows
        /\ history.previous = "done" => committed = history.before
        /\ RowKeys(history.before) = RowKeys(OutputRows) =>
              Cardinality(committed) = Cardinality(history.before)

\* a first run over a table that held the same key with other dates
C17_Witness ==
    /\ pc = "done"
    /\ history.previous = "none"
    /\ history.before = { PRIOR_ROW }
    /\ RowKeys(committed) = RowKeys(history.before)
    /\ committed # history.before

\* C18 as stated, of the failures of the write stage between the clear step
\* and the commit: the committed contents are left neither as they were
\* before the run nor as the complete new set.
C18_FailureLeavesEmptyOrPartial ==
    pc = "write_error" =>
        /\ committed # history.before
        /\ committed # OutputRows

\* C18 as amended: from the clear step to the commit, and after a failure
\* between them, the committed contents are what they were before the run; a
\* later run on the unmodified file installs the complete new set.
C18_FailureLeavesPriorContents ==
    /\ pc \in { "clear", "insert", "commit", "write_error" } =>
          committed = history.before
    /\ (pc = "done" /\ history.previous = "write_error") =>
          /\ committed = OutputRows
          /\ Cardinality(committed) = Len(authorizations)

\* a run completed after one that failed in its write stage, and replaced
\* the table the failed run had left untouched
C18_Witness ==
    /\ pc = "done"
    /\ history.previous = "write_error"
    /\ history.before \in RerunStoredTables
    /\ Cardinality(committed) = 2
    /\ committed # history.before

(***************************************************************************)
(* The unmatched-frequency table (specification SpecRerun, whose files     *)
(* hold two rows of one sub-agency).                                       *)
(***************************************************************************)
\* the sum of the counts of a frequency table
RECURSIVE SumOfCounts(_)
SumOfCounts(table) ==
    IF DOMAIN table = {} THEN 0
    ELSE LET k == CHOOSE x \in DOMAIN table : TRUE
         IN  table[k] + SumOfCounts([x \in (DOMAIN table) \ {k} |-> table[x]])

\* the count of a label, 0 when it has no entry
CountOf(table, label) ==
    IF label \in DOMAIN table THEN table[label] ELSE 0

\* the label of a row: its trimmed sub_agency, or its trimmed parent_agency
\* when that is empty
RowLabel(row) ==
    IF Strip(The(row.sub_agency)) # EMPTY
    THEN Strip(The(row.sub_agency))
    ELSE Strip(The(row.parent_agency))

\* C19: a row counted unmatched adds exactly one to the entry of its label
\* and leaves the other entries alone; every other row leaves the table
\* unchanged; the counts sum to unmatched after any prefix of the input; the
\* match result of a row is that of match_agency_to_org on the row and the
\* index, whatever the table holds.
C19_UnmatchedFrequencies ==
    /\ [](SumOfCounts(unmatched_agencies) = stats.unmatched)
    /\ [][RowStep =>
            IF stats'.unmatched = stats.unmatched + 1
            THEN LET label == RowLabel(rows[i + 1])
                 IN  /\ DOMAIN unmatched_agencies' = (DOMAIN unmatched_agencies) \cup {label}
                     /\ unmatched_agencies'[label] = CountOf(unmatched_agencies, label) + 1
                     /\ \A k \in DOMAIN unmatched_agencies :
                           k # label => unmatched_agencies'[k] = unmatched_agencies[k]
                     /\ org_id' = match_agency_to_org(Strip(The(rows[i + 1].parent_agency)),
                                                     Strip(The(rows[i + 1].sub_agency)), orgs)
            ELSE unmatched_agencies' = unmatched_agencies]_vars

\* two unmatched rows of one sub-agency: its entry has reached 2
C19_Witness ==
    /\ pc = "loop"
    /\ i = 2
    /\ stats.unmatched = 2
    /\ DOMAIN unmatched_agencies = { s_SubX }
    /\ unmatched_agencies[s_SubX] = 2

(***************************************************************************)
(* The two prefixes on "Department of the X" (specification SpecMatch).    *)
(***************************************************************************)
\* the sub_agency of the call is empty or is not a key after normalization
SubAgencyMisses ==
    \/ call.sub = EMPTY
    \/ normalize_name(call.sub) \notin DOMAIN call.index

\* C20: for the parent_agency "Department of the X", a sub_agency that is
\* empty or does not match, and an index without "department of the x", the
\* call returns the identifier under "the x" when that is a key, otherwise the
\* identifier under "x" when that is a key, otherwise None; for the parent
\* "department of X" and such a sub_agency it returns None whether or not "x"
\* is a key, as no prefix is stripped.
C20_DepartmentOfTheX ==
    /\ (call.done /\ call.parent = s_DeptOfTheX /\ SubAgencyMisses
           /\ s_deptofthex \notin DOMAIN call.index) =>
          call.result = IF s_thex \in DOMAIN call.index THEN Some(call.index[s_thex])
                        ELSE IF s_x \in DOMAIN call.index THEN Some(call.index[s_x])
                        ELSE None
    /\ (call.done /\ call.parent = s_deptofX /\ SubAgencyMisses) =>
          call.result = None

\* "x" is a key and "the x" is not: the call resolved to the identifier of "x"
C20_Witness ==
    /\ call.done
    /\ call.parent = s_DeptOfTheX
    /\ call.sub = EMPTY
    /\ s_x \in DOMAIN call.index
    /\ s_thex \notin DOMAIN call.index
    /\ s_deptofthex \notin DOMAIN call.index
    /\ call.result = Some(call.index[s_x])

(***************************************************************************)
(* backend/load_agency_ai_tools.py: slugify (lines 25-33) and the grouping *)
(* of the spreadsheet rows by agency in main (lines 98-150), followed by   *)
(* the insertion of the profiles and tools (lines 154-215).  A cell of the *)
(* spreadsheet is an Optional str, None where pandas yields NaN.           *)
(***************************************************************************)
\* longest spreadsheet, in rows
MaxSheetRows ==
    3

DIGITS ==
    << "0", "1", "2", "3", "4", "5", "6", "7", "8", "9" >>

\* str(n) for n >= 0, as the f-strings format a counter or a row number
RECURSIVE Str(_)
Str(n) ==
    IF n < 10 THEN << DIGITS[n + 1] >>
    ELSE Str(n \div 10) \o << DIGITS[(n % 10) + 1] >>

\* the characters \w matches
WORD_CHARS ==
    { UPPER[k] : k \in 1..Len(UPPER) } \cup { LOWER[k] : k \in 1..Len(LOWER) }
    \cup { DIGITS[k] : k \in 1..Len(DIGITS) } \cup { "_" }

\* the characters \s matches
SPACE_CHARS ==
    WHITESPACE \cup { "\f" }

\* re.sub(r'[^\w\s-]', '', text)
RemoveSpecial(text) ==
    SelectSeq(text, LAMBDA c : c \in WORD_CHARS \cup SPACE_CHARS \cup { "-" })

\* text without its longest prefix of characters of the set
RECURSIVE DropRun(_, _)
DropRun(text, chars) ==
    IF text # << >> /\ Head(text) \in chars THEN DropRun(Tail(text), chars) ELSE text

\* re.sub(r'[...]+', '-', text) for the character class chars
RECURSIVE HyphenateRuns(_, _)
HyphenateRuns(text, chars) ==
    IF text = << >> THEN << >>
    ELSE IF Head(text) \in chars
         THEN << "-" >> \o HyphenateRuns(DropRun(text, chars), chars)
         ELSE << Head(text) >> \o HyphenateRuns(Tail(text), chars)

\* text.strip('-')
RECURSIVE StripHyphens(_)
StripHyphens(text) ==
    IF text # << >> /\ Head(text) = "-" THEN StripHyphens(Tail(text))
    ELSE IF text # << >> /\ text[Len(text)] = "-"
         THEN StripHyphens(SubSeq(text, 1, Len(text) - 1))
         ELSE text

\* lines 25-33
slugify(text) ==
    IF text = << >> THEN << >>
    ELSE StripHyphens(HyphenateRuns(RemoveSpecial(Lower(text)),
                                    SPACE_CHARS \cup { "_", "-" }))

\* "|"
s_bar ==
    << "|" >>

\* "-"
s_hyphen ==
    << "-" >>

\* "none_identified"
NONE_IDENTIFIED ==
    << "n", "o", "n", "e", "_", "i", "d", "e", "n", "t", "i", "f", "i", "e", "d" >>

\* lines 104-105: the row has no agency name
NoAgencyName(row) ==
    IF row.AgencyName = None THEN TRUE ELSE The(row.AgencyName) = << >>

\* "abbreviation or ''" and "abbreviation or agency_name"
AbbreviationOr(row, default) ==
    IF row.Abbreviation # None /\ The(row.Abbreviation) # << >>
    THEN The(row.Abbreviation)
    ELSE default

\* line 112
agency_key(row) ==
    The(row.AgencyName) \o s_bar \o AbbreviationOr(row, << >>)

\* line 116
base_slug(row) ==
    slugify(AbbreviationOr(row, The(row.AgencyName)))

\* "sub in text"
Contains(text, sub) ==
    \E k \in 0..(Len(text) - Len(sub)) : SubSeq(text, k + 1, k + Len(sub)) = sub

\* str.replace(' ', '_')
SpacesToUnderscores(text) ==
    [k \in 1..Len(text) |-> IF text[k] = " " THEN "_" ELSE text[k]]

e_all_staff ==
    << "a", "l", "l", "_", "s", "t", "a", "f", "f" >>

e_pilot ==
    << "p", "i", "l", "o", "t" >>

e_limited ==
    << "l", "i", "m", "i", "t", "e", "d" >>

e_pilot_or_limited ==
    << "p", "i", "l", "o", "t", "_", "o", "r", "_", "l", "i", "m", "i", "t", "e", "d" >>

e_no_public_internal_assistant ==
    << "n", "o", "_", "p", "u", "b", "l", "i", "c", "_", "i", "n", "t", "e", "r", "n",
       "a", "l", "_", "a", "s", "s", "i", "s", "t", "a", "n", "t" >>

e_staff_chatbot ==
    << "s", "t", "a", "f", "f", "_", "c", "h", "a", "t", "b", "o", "t" >>

e_coding_assistant ==
    << "c", "o", "d", "i", "n", "g", "_", "a", "s", "s", "i", "s", "t", "a", "n", "t" >>

e_document_automation ==
    << "d", "o", "c", "u", "m", "e", "n", "t", "_", "a", "u", "t", "o", "m", "a", "t",
       "i", "o", "n" >>

\* a NaN cell is a float that is true in a test, so that "if not status" and
\* "if not ptype" let it through and .lower() raises AttributeError
Raises(cell) ==
    cell = None

\* lines 36-46, on a str
map_deployment_status(status) ==
    IF status = << >> THEN e_no_public_internal_assistant
    ELSE IF Contains(Lower(status), e_all_staff) THEN e_all_staff
    ELSE IF Contains(Lower(status), e_pilot) \/ Contains(Lower(status), e_limited)
         THEN e_pilot_or_limited
    ELSE e_no_public_internal_assistant

\* lines 49-55, on a str
map_product_type(ptype) ==
    IF ptype = << >> THEN NONE_IDENTIFIED
    ELSE IF SpacesToUnderscores(Lower(ptype)) \in
              { e_staff_chatbot, e_coding_assistant, e_document_automation, NONE_IDENTIFIED }
         THEN SpacesToUnderscores(Lower(ptype))
    ELSE NONE_IDENTIFIED

\* line 138: the row names a product
HasTool(row) ==
    /\ row.ProductName # None
    /\ The(row.ProductName) # << >>
    /\ Lower(The(row.ProductName)) # NONE_IDENTIFIED

\* lines 134-150: the tools of an agency after the row
WithTool(tools, row) ==
    IF HasTool(row)
    THEN Append(tools, [product_name |-> The(row.ProductName),
                        product_type |-> map_product_type(The(row.ProductType))])
    ELSE tools

\* line 141: map_product_type raises on the row
ToolRaises(row) ==
    HasTool(row) /\ Raises(row.ProductType)

\* line 119: slug in used_slugs
SlugInUse(slug, used_slugs) ==
    slug \in used_slugs

\* line 120
SuffixedSlug(base, counter) ==
    base \o s_hyphen \o Str(counter)

\* lines 124-132
NewAgency(row, slug) ==
    [agency_name |-> The(row.AgencyName),
     abbreviation |-> IF row.Abbreviation = None THEN None ELSE row.Abbreviation,
     parent |-> row.Parent,
     slug |-> slug,
     deployment_status |-> map_deployment_status(The(row.DeploymentStatus_2025_11)),
     tools |-> << >>]

\* the cells of the spreadsheets
s_A ==
    << "A" >>

s_B ==
    << "B" >>

s_C ==
    << "C" >>

s_X ==
    << "X" >>

\* "X." : slugify drops the full stop
s_Xdot ==
    << "X", "." >>

\* "x_1" : slugify turns the underscore into a hyphen
s_x_1 ==
    << "x", "_", "1" >>

\* "!" : slugify leaves nothing
s_bang ==
    << "!" >>

s_P ==
    << "P" >>

s_Bot ==
    << "B", "o", "t" >>

\* "Pilot"
s_Pilot ==
    << "P", "i", "l", "o", "t" >>

\* "All_Staff"
s_All_Staff ==
    << "A", "l", "l", "_", "S", "t", "a", "f", "f" >>

\* "Staff Chatbot"
s_StaffChatbot ==
    << "S", "t", "a", "f", "f", " ", "C", "h", "a", "t", "b", "o", "t" >>

AgencyRow(name, abbreviation, parent, status, product, type) ==
    [AgencyName |-> name, Abbreviation |-> abbreviation, Parent |-> parent,
     DeploymentStatus_2025_11 |-> status, ProductName |-> product,
     ProductType |-> type]

SheetRowPool ==
    { AgencyRow(Some(s_A), Some(s_X), None, Some(s_Pilot), Some(s_Bot), Some(s_StaffChatbot)),
      AgencyRow(Some(s_A), Some(s_X), Some(s_P), Some(s_All_Staff), None, None),
      AgencyRow(Some(s_B), Some(s_X), None, Some(s_Pilot), Some(NONE_IDENTIFIED), None),
      AgencyRow(Some(s_C), Some(s_x_1), Some(s_P), Some(s_Pilot), Some(s_Bot),
                Some(s_StaffChatbot)),
      AgencyRow(Some(s_Xdot), None, None, Some(s_All_Staff), None, None),
      AgencyRow(Some(s_bang), None, None, Some(s_Pilot), None, None),
      AgencyRow(None, Some(s_X), None, Some(s_Pilot), Some(s_Bot), Some(s_StaffChatbot)),
      AgencyRow(Some(s_B), Some(s_X), None, None, None, None),
      AgencyRow(Some(s_A), Some(s_X), None, Some(s_Pilot), Some(s_Bot), None) }

Sheets ==
    UNION { [1..n -> SheetRowPool] : n \in 0..MaxSheetRows }

\* lines 80-100: the spreadsheet is read, both tables are emptied, agencies
\* and used_slugs are empty
InitAgencies ==
    /\ pc = "iterrows"
    /\ agency_load \in { [IdleAgencyLoad EXCEPT !.df = d] : d \in Sheets }
    /\ use_case_load = IdleUseCaseLoad
    /\ config = [argv |-> TRUE, file |-> TRUE, dburl |-> TRUE]
    /\ federal_organizations = << >>
    /\ committed = {}
    /\ tx = {}
    /\ orgs = << >>
    /\ rows = << >>
    /\ i = 0
    /\ seen = {}
    /\ authorizations = << >>
    /\ stats = InitialStats
    /\ unmatched_agencies = << >>
    /\ org_id = None
    /\ call = IdleCall
    /\ history = [before |-> {}, previous |-> "none"]

\* the variables of the other programs
OtherThanAgencyLoad ==
    << use_case_load, config, federal_organizations, committed, tx, orgs, rows, i, seen,
       authorizations, stats, unmatched_agencies, org_id, call, history >>

\* lines 102-105: a row without an agency name is passed over
SkipSheetRow ==
    /\ pc = "iterrows"
    /\ agency_load.k < Len(agency_load.df)
    /\ NoAgencyName(agency_load.df[agency_load.k + 1])
    /\ agency_load' = [agency_load EXCEPT !.k = @ + 1]
    /\ UNCHANGED << pc, OtherThanAgencyLoad >>

\* lines 102-114 and 134-150: a further row of an agency already grouped
\* adds its tool, if it has one; main ends in AttributeError where line 141
\* raises
FurtherRow ==
    /\ pc = "iterrows"
    /\ agency_load.k < Len(agency_load.df)
    /\ LET row == agency_load.df[agency_load.k + 1]
       IN  IF NoAgencyName(row) THEN FALSE
           ELSE /\ agency_key(row) \in DOMAIN agency_load.agencies
                /\ IF ToolRaises(row)
                   THEN /\ pc' = "attribute_error"
                        /\ UNCHANGED agency_load
                   ELSE /\ agency_load' =
                             [agency_load EXCEPT
                                 !.k = @ + 1,
                                 !.agencies[agency_key(row)].tools = WithTool(@, row)]
                        /\ UNCHANGED pc
    /\ UNCHANGED OtherThanAgencyLoad

\* lines 102-118: the first row of an agency starts the search for its slug
FirstRow ==
    /\ pc = "iterrows"
    /\ agency_load.k < Len(agency_load.df)
    /\ LET row == agency_load.df[agency_load.k + 1]
       IN  IF NoAgencyName(row) THEN FALSE
           ELSE /\ agency_key(row) \notin DOMAIN agency_load.agencies
                /\ agency_load' =
                     [agency_load EXCEPT
                         !.base_slug = base_slug(row),
                         !.slug = base_slug(row),
                         !.counter = 1]
    /\ pc' = "while"
    /\ UNCHANGED OtherThanAgencyLoad

\* lines 119-121: one iteration of the while loop
NextSuffix ==
    /\ pc = "while"
    /\ SlugInUse(agency_load.slug, agency_load.used_slugs)
    /\ agency_load' =
         [agency_load EXCEPT
             !.slug = SuffixedSlug(agency_load.base_slug, agency_load.counter),
             !.counter = @ + 1]
    /\ UNCHANGED << pc, OtherThanAgencyLoad >>

\* d[key] = value on a dict
SetItem(d, key, value) ==
    [x \in (DOMAIN d) \cup { key } |-> IF x = key THEN value ELSE d[x]]

\* lines 119 and 122-150: the loop ends, the slug is taken and the agency is
\* entered with the attributes and the tool of the row; main ends in
\* AttributeError where line 130 raises, the slug taken and the agency not
\* entered, or where line 141 raises, the agency entered without the tool
AddAgency ==
    /\ pc = "while"
    /\ ~SlugInUse(agency_load.slug, agency_load.used_slugs)
    /\ LET row == agency_load.df[agency_load.k + 1]
           key == agency_key(row)
           entry == NewAgency(row, agency_load.slug)
           taken == [agency_load EXCEPT !.used_slugs = @ \cup { agency_load.slug }]
           entered == [taken EXCEPT !.agencies = SetItem(@, key, entry),
                                    !.order = Append(@, key)]
       IN  IF Raises(row.DeploymentStatus_2025_11)
           THEN /\ agency_load' = taken
                /\ pc' = "attribute_error"
           ELSE IF ToolRaises(row)
           THEN /\ agency_load' = entered
                /\ pc' = "attribute_error"
           ELSE /\ agency_load' =
                     [entered EXCEPT !.agencies[key].tools = WithTool(@, row),
                                     !.k = @ + 1]
                /\ pc' = "iterrows"
    /\ UNCHANGED OtherThanAgencyLoad

\* line 192: the slug of the i-th tool of an agency
tool_slug(agency_slug, product_name, idx) ==
    slugify(agency_slug \o s_hyphen \o product_name \o s_hyphen \o Str(idx))

\* lines 159-188: the profile inserted for the j-th agency of the dict
ProfileOf(agencies, order, j) ==
    LET agency_data == agencies[order[j]]
    IN  [id |-> j,
         agency_name |-> agency_data.agency_name,
         abbreviation |-> agency_data.abbreviation,
         slug |-> agency_data.slug,
         parent_abbreviation |-> agency_data.parent,
         deployment_status |-> agency_data.deployment_status,
         tool_count |-> Len(agency_data.tools)]

\* lines 191-214: the tools inserted for the j-th agency of the dict
ToolsOf(agencies, order, j) ==
    LET agency_data == agencies[order[j]]
    IN  { [agency_profile_id |-> j,
           product_name |-> agency_data.tools[t].product_name,
           product_type |-> agency_data.tools[t].product_type,
           slug |-> tool_slug(agency_data.slug, agency_data.tools[t].product_name, t - 1)] :
             t \in 1..Len(agency_data.tools) }

\* lines 152-215: after the last row every agency of the dict is inserted, in
\* the order of the dict, with its tools, and the transaction is committed
InsertProfiles ==
    /\ pc = "iterrows"
    /\ agency_load.k = Len(agency_load.df)
    /\ agency_load' =
         [agency_load EXCEPT
             !.agency_ai_profiles =
                 [j \in 1..Len(agency_load.order) |->
                     ProfileOf(agency_load.agencies, agency_load.order, j)],
             !.agency_ai_tools =
                 UNION { ToolsOf(agency_load.agencies, agency_load.order, j) :
                           j \in 1..Len(agency_load.order) }]
    /\ pc' = "imported"
    /\ UNCHANGED OtherThanAgencyLoad

NextAgencies ==
    \/ SkipSheetRow
    \/ FurtherRow
    \/ FirstRow
    \/ NextSuffix
    \/ AddAgency
    \/ InsertProfiles

SpecAgencies ==
    InitAgencies /\ [][NextAgencies]_vars

(***************************************************************************)
(* Properties of the agency grouping (specification SpecAgencies).         *)
(***************************************************************************)
\* the slugs of distinct agency keys differ and all are in used_slugs
SlugsDistinct ==
    /\ \A a, b \in DOMAIN agency_load.agencies :
          a # b => agency_load.agencies[a].slug # agency_load.agencies[b].slug
    /\ \A a \in DOMAIN agency_load.agencies :
          agency_load.agencies[a].slug \in agency_load.used_slugs

\* the while loop of line 119 is left: every iteration adds one to counter
\* and leaves used_slugs alone, and counter never exceeds the size of
\* used_slugs by more than one, so that the loop makes at most as many
\* iterations as there are slugs in use
SearchTerminates ==
    /\ [](pc = "while" =>
             agency_load.counter <= Cardinality(agency_load.used_slugs) + 1)
    /\ [][(pc = "while" /\ pc' = "while") =>
             /\ agency_load'.counter = agency_load.counter + 1
             /\ agency_load'.used_slugs = agency_load.used_slugs]_vars

\* the rows of the spreadsheet that name an agency
NamedRows ==
    { j \in 1..Len(agency_load.df) : ~NoAgencyName(agency_load.df[j]) }

\* the first row of an agency key
FirstRowOf(key) ==
    agency_load.df[CHOOSE j \in NamedRows :
                      /\ agency_key(agency_load.df[j]) = key
                      /\ \A h \in NamedRows :
                            agency_key(agency_load.df[h]) = key => j <= h]

\* the agency key of an inserted profile
ProfileKey(profile) ==
    profile.agency_name \o s_bar \o
        (IF profile.abbreviation = None THEN << >> ELSE The(profile.abbreviation))

\* once main has ended, every agency key of the spreadsheet has exactly one
\* profile, and it carries the name, abbreviation and parent of the first row
\* of the key
OneProfilePerKey ==
    (pc \notin { "iterrows", "while" }) =>
        \A key \in { agency_key(agency_load.df[j]) : j \in NamedRows } :
            LET found == { p \in DOMAIN agency_load.agency_ai_profiles :
                             ProfileKey(agency_load.agency_ai_profiles[p]) = key }
            IN  /\ Cardinality(found) = 1
                /\ \A p \in found :
                     LET profile == agency_load.agency_ai_profiles[p]
                         row     == FirstRowOf(key)
                     IN  /\ profile.agency_name = The(row.AgencyName)
                         /\ profile.abbreviation = row.Abbreviation
                         /\ profile.parent_abbreviation = row.Parent
                         /\ profile.slug = agency_load.agencies[key].slug

\* C21: after any sequence of spreadsheet rows the slugs of distinct agency
\* keys are pairwise distinct and in used_slugs, the search for a free slug
\* ends for every row, and every agency key has exactly one profile, with the
\* attributes of its first row.
C21_UniqueSlugsOneProfile ==
    /\ []SlugsDistinct
    /\ SearchTerminates
    /\ []OneProfilePerKey

(***************************************************************************)
(* backend/load_use_case_inventory.py: generate_slug (lines 174-193) and   *)
(* load_use_cases (lines 226-389), run by main on the two tables it has    *)
(* just emptied (lines 413-417).  A field of a CSV row is an Optional str, *)
(* None where the line is shorter than the header.                         *)
(***************************************************************************)
\* longest inventory file, in rows
MaxCaseRows ==
    3

\* line 186: slug[:80]
SLUG_LENGTH ==
    80

\* line 236: enumerate(reader, start=2)
FIRST_ROW_NUM ==
    2

\* text[:n]
Truncate_To(text, n) ==
    SubSeq(text, 1, IF Len(text) < n THEN Len(text) ELSE n)

\* "use-case-"
s_use_case_ ==
    << "u", "s", "e", "-", "c", "a", "s", "e", "-" >>

\* lines 174-193; use_case_name and agency_abbr are Optional strs
generate_slug(use_case_name, agency_abbr, row_id) ==
    LET named  == IF use_case_name # None /\ The(use_case_name) # << >>
                  THEN Lower(The(use_case_name))
                  ELSE s_use_case_ \o Str(row_id)
        hyphened == HyphenateRuns(RemoveSpecial(named), SPACE_CHARS \cup { "-" })
        trimmed == StripHyphens(Truncate_To(hyphened, SLUG_LENGTH))
    IN  IF agency_abbr # None /\ The(agency_abbr) # << >>
        THEN SelectSeq(Lower(The(agency_abbr)), LAMBDA c : c \in WORD_CHARS)
             \o s_hyphen \o trimmed
        ELSE trimmed

\* lines 250-251: SELECT COUNT(*) FROM ai_use_cases WHERE slug = ? is above 0
SlugExists(table, slug) ==
    \E r \in 1..Len(table) : table[r].slug = slug

\* lines 249-252: the slug the row is inserted with
InsertSlug(table, row, row_num) ==
    LET slug == generate_slug(row.use_case_name, row.agency_abbreviation, row_num)
    IN  IF SlugExists(table, slug) THEN slug \o s_hyphen \o Str(row_num) ELSE slug

\* line 238: the row has no use_case_name or no agency
IsEmptyRow(row) ==
    IF row.use_case_name = None \/ row.agency = None THEN TRUE
    ELSE The(row.use_case_name) = << >> \/ The(row.agency) = << >>

\* line 79, slug TEXT UNIQUE NOT NULL: the INSERT of lines 259-308 raises
\* sqlite3.IntegrityError
ViolatesUnique(table, slug) ==
    SlugExists(table, slug)

\* lines 259-309: the row as stored in ai_use_cases, under the next id
StoredUseCase(table, row, slug) ==
    [id |-> Len(table) + 1,
     use_case_name |-> The(row.use_case_name),
     agency |-> The(row.agency),
     agency_abbreviation |-> row.agency_abbreviation,
     slug |-> slug]

UseCaseRow(name, agency, abbreviation) ==
    [use_case_name |-> name, agency |-> agency, agency_abbreviation |-> abbreviation]

\* "A 4"
s_A_4 ==
    << "A", " ", "4" >>

\* "A!"
s_Abang ==
    << "A", "!" >>

\* "x a"
s_x_a ==
    << "x", " ", "a" >>

\* "x."
s_xdot ==
    << "x", "." >>

UseCaseRowPool ==
    { UseCaseRow(Some(s_A), Some(s_X), Some(EMPTY)),
      UseCaseRow(Some(s_A_4), Some(s_X), Some(EMPTY)),
      UseCaseRow(Some(s_A), Some(EMPTY), Some(EMPTY)),
      UseCaseRow(Some(s_Abang), Some(s_X), Some(s_xdot)),
      UseCaseRow(Some(s_x_a), Some(s_X), Some(EMPTY)),
      UseCaseRow(Some(s_A), None, None) }

InventoryFiles ==
    UNION { [1..n -> UseCaseRowPool] : n \in 0..MaxCaseRows }

\* lines 226-234 after lines 413-417 of main: both tables are empty
InitUseCases ==
    /\ pc = "reader"
    /\ use_case_load \in { [IdleUseCaseLoad EXCEPT !.reader = f] : f \in InventoryFiles }
    /\ agency_load = IdleAgencyLoad
    /\ config = [argv |-> TRUE, file |-> TRUE, dburl |-> TRUE]
    /\ federal_organizations = << >>
    /\ committed = {}
    /\ tx = {}
    /\ orgs = << >>
    /\ rows = << >>
    /\ i = 0
    /\ seen = {}
    /\ authorizations = << >>
    /\ stats = InitialStats
    /\ unmatched_agencies = << >>
    /\ org_id = None
    /\ call = IdleCall
    /\ history = [before |-> {}, previous |-> "none"]

\* the variables of the other programs
OtherThanUseCaseLoad ==
    << agency_load, config, federal_organizations, committed, tx, orgs, rows, i, seen,
       authorizations, stats, unmatched_agencies, org_id, call, history >>

\* lines 236-385: one iteration of the loop
LoadRow ==
    /\ pc = "reader"
    /\ use_case_load.n < Len(use_case_load.reader)
    /\ LET row     == use_case_load.reader[use_case_load.n + 1]
           row_num == use_case_load.n + FIRST_ROW_NUM
           table   == use_case_load.ai_use_cases
       IN  IF IsEmptyRow(row)
           THEN use_case_load' = [use_case_load EXCEPT !.n = @ + 1, !.skipped = @ + 1]
           ELSE IF ViolatesUnique(table, InsertSlug(table, row, row_num))
           THEN use_case_load' = [use_case_load EXCEPT !.n = @ + 1, !.skipped = @ + 1]
           ELSE use_case_load' =
                  [use_case_load EXCEPT
                      !.n = @ + 1,
                      !.ai_use_cases =
                          Append(@, StoredUseCase(table, row, InsertSlug(table, row, row_num))),
                      !.ai_use_case_details = @ \cup { Len(table) + 1 },
                      !.count = @ + 1]
    /\ UNCHANGED << pc, OtherThanUseCaseLoad >>

\* lines 387-389
CommitUseCases ==
    /\ pc = "reader"
    /\ use_case_load.n = Len(use_case_load.reader)
    /\ use_case_load' = [use_case_load EXCEPT !.committed = TRUE]
    /\ pc' = "loaded"
    /\ UNCHANGED OtherThanUseCaseLoad

NextUseCases ==
    \/ LoadRow
    \/ CommitUseCases

SpecUseCases ==
    InitUseCases /\ [][NextUseCases]_vars

(***************************************************************************)
(* Properties of the use-case load (specification SpecUseCases).           *)
(***************************************************************************)
\* the loop of load_use_cases takes a row
LoadStep ==
    pc = "reader" /\ use_case_load'.n = use_case_load.n + 1

\* the slugs of the loaded use cases differ
LoadedSlugsDistinct ==
    \A a, b \in 1..Len(use_case_load.ai_use_cases) :
        a # b => use_case_load.ai_use_cases[a].slug # use_case_load.ai_use_cases[b].slug

\* every row read is counted once, in count or in skipped
CountsBalance ==
    use_case_load.count + use_case_load.skipped = use_case_load.n

\* a row that has a use_case_name and an agency is loaded and counted in
\* count; any other row is counted in skipped
NamedRowsLoaded ==
    [][LoadStep =>
         LET row == use_case_load.reader[use_case_load.n + 1]
         IN  IF IsEmptyRow(row)
             THEN /\ use_case_load'.skipped = use_case_load.skipped + 1
                  /\ use_case_load'.ai_use_cases = use_case_load.ai_use_cases
             ELSE /\ use_case_load'.count = use_case_load.count + 1
                  /\ use_case_load'.skipped = use_case_load.skipped
                  /\ Len(use_case_load'.ai_use_cases) =
                        Len(use_case_load.ai_use_cases) + 1]_vars

\* C22: a row whose slug collides with that of a loaded use case gets its
\* row number appended, so that every row with a use_case_name and an agency
\* is loaded and counted in count, the loaded slugs are pairwise distinct,
\* and count + skipped is the number of rows read.
C22_CollidingRowsLoaded ==
    /\ NamedRowsLoaded
    /\ []LoadedSlugsDistinct
    /\ []CountsBalance

=============================================================================
